---- MODULE Spec2Model ----
(***************************************************************************)
(* NudgeKit: the sleep-statistics engine of App.tsx (derive, summarize,    *)
(* the risk label, CSV ingestion and the store-writing actions of the App  *)
(* component) and the in-memory storage module storage.ts.                 *)
(*                                                                         *)
(* Strings are records [k, t, a, b, pad]:                                  *)
(*   k = "txt"  : the text t                                               *)
(*   k = "date" : the calendar date "YYYY-MM-DD" of UTC day a              *)
(*   k = "iso"  : the ISO-8601 UTC timestamp of minute a since the epoch,  *)
(*                plus b milliseconds within that minute                   *)
(*   pad        : the string carries surrounding white space               *)
(* Numbers are integers; a JavaScript null is the empty tuple and a        *)
(* non-null number v is <<v>>.                                             *)
(***************************************************************************)
EXTENDS Integers, Sequences, FiniteSets, TLC

VARIABLES
    store,      \* the Night Store behind readRaw / writeRaw / clearAll
    nights,     \* App: React state `nights`
    lastOp,     \* the handler that ran last
    MEM,        \* storage.ts: the module-level array MEM
    got,        \* storage.ts: what the last call returned or threw (<<>>: nothing)
    window,     \* summarize: the argument `derived`
    snapshot,   \* summarize: the returned stats (<<>> before the call)
    raw,        \* derive: the argument `n`
    derivedOut, \* App.tsx derive: the returned DerivedNight (<<>> before the call)
    derivedSt,  \* storage.ts derive: the returned DerivedNight (<<>> before the call)
    arg,        \* the argument of the call followed (<<>> when it takes none)
    task,       \* App: the handlers in flight, each at one of its await points
    csvText,    \* parseCsvToNights: the argument `csv`
    result,     \* parseCsvToNights: the value returned or the error thrown
    nudge       \* App: Platform.OS, `perm`, and what the last nudge handler did

vars == <<store, nights, lastOp, MEM, got, window, snapshot, raw, derivedOut, derivedSt,
          arg, task, csvText, result, nudge>>

(***************************************************************************)
(* Bounds of the model                                                     *)
(***************************************************************************)
MaxWindow == 8      \* longest sequence handed to summarize
MaxShort == 4       \* longest sequence over the wider set of midsleeps
NowDay == 8         \* the UTC day, counted from the epoch, on which the app runs
MaxNights == 8      \* nights in the App's store beyond which no night is logged
MaxCsvRows == 2     \* lines below the header of an imported CSV text
MaxDates == 3       \* calendar dates used with the storage module
MaxLimit == 4       \* largest explicit limit handed to getDerivedNights
MaxDur == 5         \* longest night, in minutes, handed to derive on its own
MaxNudgeNights == 4 \* nights logged at most where the nudge handlers are followed
MaxMid == 3         \* midsleeps handed to nightFromMidsleep lie this close to a base
MaxRun == 7         \* longest run of nights on consecutive dates

(***************************************************************************)
(* Program constants                                                       *)
(***************************************************************************)
BASELINE_WINDOW_DAYS == 7
DRIFT_THRESHOLD_MIN == 90

(***************************************************************************)
(* Strings, dates and timestamps                                           *)
(***************************************************************************)
Txt(t) == [k |-> "txt", t |-> t, a |-> 0, b |-> 0, pad |-> FALSE]

\* Date.prototype.toISOString().slice(0, 10) of an instant of ms milliseconds
DateStr(ms) == [k |-> "date", t |-> "", a |-> ms \div 86400000, b |-> 0, pad |-> FALSE]

\* Date.prototype.toISOString() of an instant of ms milliseconds
IsoStr(ms) == [k |-> "iso", t |-> "", a |-> ms \div 60000, b |-> ms % 60000, pad |-> FALSE]

\* new Date(s).getTime() of a parseable string
getTime(s) == IF s.k = "iso" THEN s.a * 60000 + s.b ELSE s.a * 86400000

\* new Date(s) is a valid date: s is an ISO timestamp or a calendar date; for any
\* other text getTime() is NaN
Parseable(s) == s.k \in {"iso", "date"}

Abs(x) == IF x < 0 THEN 0 - x ELSE x
Max(x, y) == IF x >= y THEN x ELSE y
Min(x, y) == IF x <= y THEN x ELSE y

\* Math.round(p / q) for q > 0: the nearest integer, halves towards +infinity
RoundDiv(p, q) == (2 * p + q) \div (2 * q)

(***************************************************************************)
(* App.tsx: tiny stats helpers                                             *)
(***************************************************************************)
\* Math.round in place of Math.floor
toMinutes_round(ms) == RoundDiv(ms, 60000)

toMinutes(ms) == ms \div 60000

fromISO(s) == getTime(s)

\* the difference of the minutes is taken as it is
derive_unclamped(n) ==
    LET startMin == toMinutes(fromISO(n.sleep_start))
        endMin == toMinutes(fromISO(n.sleep_end))
        duration_min == endMin - startMin
    IN  [date |-> n.date, sleep_start |-> n.sleep_start, sleep_end |-> n.sleep_end,
         duration_min |-> duration_min,
         midsleep_min_epoch |-> startMin + (duration_min \div 2)]

derive(n) ==
    LET start == fromISO(n.sleep_start)
        end == fromISO(n.sleep_end)
        startMin == toMinutes(start)
        endMin == toMinutes(end)
        duration_min == Max(0, endMin - startMin)
        midsleep_min_epoch == startMin + (duration_min \div 2)
    IN  [date |-> n.date, sleep_start |-> n.sleep_start, sleep_end |-> n.sleep_end,
         duration_min |-> duration_min, midsleep_min_epoch |-> midsleep_min_epoch]

RECURSIVE SumMid(_)
\* lastN.reduce((s, d) => s + d.midsleep_min_epoch, 0)
SumMid(s) == IF s = <<>> THEN 0 ELSE Head(s).midsleep_min_epoch + SumMid(Tail(s))

\* slice(0, BASELINE_WINDOW_DAYS + 1)
lastNOf_offByOne(derived) ==
    SubSeq(derived, 1, Min(Len(derived), BASELINE_WINDOW_DAYS + 1))

\* derived.slice(0, BASELINE_WINDOW_DAYS)
lastNOf(derived) == SubSeq(derived, 1, Min(Len(derived), BASELINE_WINDOW_DAYS))

\* the sum divided by the size of the full window instead of the coverage
baselineMidOf_fullWindow(lastN) ==
    IF Len(lastN) > 0 THEN <<SumMid(lastN) \div BASELINE_WINDOW_DAYS>> ELSE <<>>

\* Math.round in place of Math.floor
baselineMidOf_round(lastN) ==
    IF Len(lastN) > 0 THEN <<RoundDiv(SumMid(lastN), Len(lastN))>> ELSE <<>>

baselineMidOf(lastN) ==
    IF Len(lastN) > 0 THEN <<SumMid(lastN) \div Len(lastN)>> ELSE <<>>

recentLatenessOf(lastN, baselineMid) ==
    IF baselineMid # <<>> /\ Len(lastN) > 0
    THEN lastN[1].midsleep_min_epoch - baselineMid[1]
    ELSE 0

RECURSIVE SumAbsDev(_, _)
\* lastN.map(d => Math.abs(d.midsleep_min_epoch - (baselineMid ?? d.midsleep_min_epoch)))
\*      .reduce((a, b) => a + b, 0)
SumAbsDev(s, baselineMid) ==
    IF s = <<>> THEN 0
    ELSE Abs(Head(s).midsleep_min_epoch
             - (IF baselineMid # <<>> THEN baselineMid[1] ELSE Head(s).midsleep_min_epoch))
         + SumAbsDev(Tail(s), baselineMid)

RECURSIVE SumDeltas(_)
SumDeltas(s) ==
    IF Len(s) <= 1 THEN 0
    ELSE Abs(s[1].midsleep_min_epoch - s[2].midsleep_min_epoch) + SumDeltas(Tail(s))

\* the sum of the absolute differences between consecutive nights
regularityLossOf_deltas(lastN, baselineMid) ==
    IF Len(lastN) > 1 THEN SumDeltas(lastN) ELSE 0

regularityLossOf(lastN, baselineMid) ==
    IF Len(lastN) > 1 THEN SumAbsDev(lastN, baselineMid) ELSE 0

\* only lateness counts: Math.abs is missing
driftOf_signed(baselineMid, recentLateness) ==
    baselineMid # <<>> /\ recentLateness >= DRIFT_THRESHOLD_MIN

\* > in place of >=
driftOf_strict(baselineMid, recentLateness) ==
    baselineMid # <<>> /\ Abs(recentLateness) > DRIFT_THRESHOLD_MIN

driftOf(baselineMid, recentLateness) ==
    baselineMid # <<>> /\ Abs(recentLateness) >= DRIFT_THRESHOLD_MIN

summarize(derived) ==
    LET lastN == lastNOf(derived)
        coverage == Len(lastN)
        baselineMid == baselineMidOf(lastN)
        recentLateness == recentLatenessOf(lastN, baselineMid)
        regularityLoss == regularityLossOf(lastN, baselineMid)
        drift == driftOf(baselineMid, recentLateness)
    IN  [coverage |-> coverage, baselineMid |-> baselineMid,
         recentLateness |-> recentLateness, regularityLoss |-> regularityLoss,
         drift |-> drift]

\* the drift flag is looked at before the coverage
riskLabel_driftFirst(stats) ==
    IF stats.drift THEN "HIGH"
    ELSE IF stats.coverage < 3 THEN "INSUFFICIENT_DATA" ELSE "LOW"

\* App: const riskLabel = stats.coverage < 3 ? ... : stats.drift ? ... : ...
riskLabel(stats) ==
    IF stats.coverage < 3 THEN "INSUFFICIENT_DATA"
    ELSE IF stats.drift THEN "HIGH" ELSE "LOW"


RECURSIVE InsertDesc(_, _)
\* place d behind every element whose midsleep is at least its own (a stable sort)
InsertDesc(s, d) ==
    IF s = <<>> THEN <<d>>
    ELSE IF Head(s).midsleep_min_epoch >= d.midsleep_min_epoch
         THEN <<Head(s)>> \o InsertDesc(Tail(s), d)
         ELSE <<d>> \o s

RECURSIVE SortDesc(_, _)
SortDesc(done, rest) ==
    IF rest = <<>> THEN done ELSE SortDesc(InsertDesc(done, Head(rest)), Tail(rest))

\* the derived nights in the order of the store
derivedOf_unsorted(ns) == [i \in 1..Len(ns) |-> derive(ns[i])]

\* App: nights.map(derive).sort((a, b) => b.midsleep_min_epoch - a.midsleep_min_epoch)
derivedOf(ns) == SortDesc(<<>>, [i \in 1..Len(ns) |-> derive(ns[i])])

\* App: const stats = summarize(derived)
statsOf(ns) == summarize(derivedOf(ns))

(***************************************************************************)
(* App.tsx: CSV import helpers.  A CSV text is the sequence of its lines,  *)
(* a line the sequence of the cells that split(",") yields.                *)
(***************************************************************************)
trim(s) == [s EXCEPT !.pad = FALSE]

toLowerCase(s) ==
    [s EXCEPT !.t = CASE s.t = "Date" -> "date"
                      [] s.t = "DATE" -> "date"
                      [] s.t = "Sleep_Start" -> "sleep_start"
                      [] s.t = "SLEEP_END" -> "sleep_end"
                      [] OTHER -> s.t]

\* !s : the empty string is falsy
IsEmptyStr(s) == s.k = "txt" /\ s.t = "" /\ ~s.pad

\* l.trim() of a line: white space around a line with a single cell goes; the
\* cells of a longer line are trimmed one by one where they are used
trimLine(l) == IF Len(l) = 1 THEN <<trim(l[1])>> ELSE l

RECURSIVE FilterLines(_)
\* .filter((l) => l.length > 0)
FilterLines(ls) ==
    IF ls = <<>> THEN <<>>
    ELSE IF Len(Head(ls)) = 1 /\ IsEmptyStr(Head(ls)[1])
         THEN FilterLines(Tail(ls))
         ELSE <<Head(ls)>> \o FilterLines(Tail(ls))

RECURSIVE IndexFrom(_, _, _)
\* header.indexOf(name), counted from 1; 0 when absent
IndexFrom(header, name, i) ==
    IF i > Len(header) THEN 0
    ELSE IF header[i] = Txt(name) THEN i
    ELSE IndexFrom(header, name, i + 1)

\* the columns are taken where the documented order puts them
indexOf_positional(header, name) ==
    CASE name = "date" -> 1
      [] name = "sleep_start" -> 2
      [] name = "sleep_end" -> 3

indexOf(header, name) == IndexFrom(header, name, 1)

\* only a text with no line at all has no data rows
NoData_strict(lines) == Len(lines) < 1

\* if (lines.length <= 1) throw new Error("CSV file has no data rows.")
NoData(lines) == Len(lines) <= 1

\* the header is refused only when all three columns are absent
MissingColumn_all(idxDate, idxStart, idxEnd) == idxDate = 0 /\ idxStart = 0 /\ idxEnd = 0

\* if (idxDate === -1 || idxStart === -1 || idxEnd === -1) throw ...
MissingColumn(idxDate, idxStart, idxEnd) == idxDate = 0 \/ idxStart = 0 \/ idxEnd = 0

\* a row as long as the header is dropped as well
TooShort_le(parts, hlen) == Len(parts) <= hlen

\* if (parts.length < header.length) continue
TooShort(parts, hlen) == Len(parts) < hlen

\* parts[idx]?.trim(): undefined, which is falsy as the empty string is, when
\* the row has no such cell
At(parts, idx) == IF idx \in 1..Len(parts) THEN trim(parts[idx]) ELSE Txt("")

RECURSIVE ParseRows(_, _, _, _, _)
\* the for loop over lines[1..]
ParseRows(rows, hlen, idxDate, idxStart, idxEnd) ==
    IF rows = <<>> THEN <<>>
    ELSE LET parts == Head(rows)
             rest == ParseRows(Tail(rows), hlen, idxDate, idxStart, idxEnd)
         IN  IF TooShort(parts, hlen) THEN rest
             ELSE LET date == At(parts, idxDate)
                      sleep_start == At(parts, idxStart)
                      sleep_end == At(parts, idxEnd)
                  IN  IF IsEmptyStr(date) \/ IsEmptyStr(sleep_start) \/ IsEmptyStr(sleep_end)
                      THEN rest
                      ELSE <<[date |-> date, sleep_start |-> sleep_start,
                              sleep_end |-> sleep_end]>> \o rest

\* the value returned (err = "") or the error thrown
parseCsvToNights(csv) ==
    LET lines == FilterLines([i \in 1..Len(csv) |-> trimLine(csv[i])])
    IN  IF NoData(lines) THEN [err |-> "NoDataRows", nights |-> <<>>]
        ELSE LET header == [i \in 1..Len(lines[1]) |-> toLowerCase(trim(lines[1][i]))]
                 idxDate == indexOf(header, "date")
                 idxStart == indexOf(header, "sleep_start")
                 idxEnd == indexOf(header, "sleep_end")
             IN  IF MissingColumn(idxDate, idxStart, idxEnd)
                 THEN [err |-> "MalformedHeader", nights |-> <<>>]
                 ELSE LET ns == ParseRows(Tail(lines), Len(header), idxDate, idxStart, idxEnd)
                      IN  IF Len(ns) = 0 THEN [err |-> "NoValidRows", nights |-> <<>>]
                          ELSE [err |-> "", nights |-> ns]

(***************************************************************************)
(* App.tsx: fake data helpers                                              *)
(***************************************************************************)
\* new Date().getTime(): the clock, 22:00:15 UTC on day NowDay
NowMs == NowDay * 86400000 + 79215000

makeFake(dayOffset, h, m, driftMin) ==
    LET today == NowMs - dayOffset * 86400000
        date == DateStr(today)
        start == getTime(date) + (h * 60 + m) * 60000
        end == start + (8 * 60 + driftMin) * 60000
    IN  [date |-> date, sleep_start |-> IsoStr(start), sleep_end |-> IsoStr(end)]

\* the offset is left out
nightFromMidsleep_noOffset(midsleepMinEpoch, offsetMinutes) ==
    LET midsleep == midsleepMinEpoch * 60000
        start == midsleep - 4 * 60 * 60000
        end == midsleep + 4 * 60 * 60000
    IN  [date |-> DateStr(start), sleep_start |-> IsoStr(start), sleep_end |-> IsoStr(end)]

nightFromMidsleep(midsleepMinEpoch, offsetMinutes) ==
    LET midsleep == (midsleepMinEpoch + offsetMinutes) * 60000
        start == midsleep - 4 * 60 * 60000
        end == midsleep + 4 * 60 * 60000
    IN  [date |-> DateStr(start), sleep_start |-> IsoStr(start), sleep_end |-> IsoStr(end)]

(***************************************************************************)
(* The Night Store collaborator: readRaw, writeRaw (replace-all), clearAll *)
(***************************************************************************)
readRaw(st) == st
writeRaw(ns) == ns
clearAll == <<>>


(***************************************************************************)
(* storage.ts                                                              *)
(***************************************************************************)
\* const toMin = (ms) => Math.round(ms / 60000)
toMin(ms) == RoundDiv(ms, 60000)

isoToMin(iso) == toMin(getTime(iso))

\* storage.ts derive
derive_storage(n) ==
    LET startMin == isoToMin(n.sleep_start)
        endMin == isoToMin(n.sleep_end)
        durationMin == Max(1, endMin - startMin)
        midsleepMin == startMin + RoundDiv(durationMin, 2)
    IN  [date |-> n.date, sleep_start |-> n.sleep_start, sleep_end |-> n.sleep_end,
         duration_min |-> durationMin, midsleep_min_epoch |-> midsleepMin]

\* a.date < b.date on "YYYY-MM-DD" strings
DateLess(a, b) == a.date.a < b.date.a

RECURSIVE InsertByDate(_, _)
InsertByDate(s, n) ==
    IF s = <<>> THEN <<n>>
    ELSE IF DateLess(Head(s), n) THEN <<n>> \o s
         ELSE <<Head(s)>> \o InsertByDate(Tail(s), n)

RECURSIVE SortByDate(_, _)
\* [...MEM].sort((a, b) => (a.date < b.date ? 1 : -1)): newest date first
SortByDate(done, rest) ==
    IF rest = <<>> THEN done ELSE SortByDate(InsertByDate(done, Head(rest)), Tail(rest))

\* the array is cut as it stands
getDerivedNights_unsorted(mem, limit) ==
    LET cut == SubSeq(mem, 1, Min(Len(mem), limit))
    IN  [i \in 1..Len(cut) |-> derive_storage(cut[i])]

getDerivedNights(mem, limit) ==
    LET sorted == SortByDate(<<>>, mem)
        cut == SubSeq(sorted, 1, Min(Len(sorted), limit))
    IN  [i \in 1..Len(cut) |-> derive_storage(cut[i])]

RECURSIVE FindIndex(_, _, _)
\* MEM.findIndex(x => x.date === n.date), counted from 1; 0 when absent
FindIndex(mem, date, i) ==
    IF i > Len(mem) THEN 0
    ELSE IF mem[i].date = date THEN i
    ELSE FindIndex(mem, date, i + 1)

\* the night is pushed whatever the array holds
upsertNight_push(mem, n) == Append(mem, n)

upsertNight(mem, n) ==
    LET i == FindIndex(mem, n.date, 1)
    IN  IF i >= 1 THEN [mem EXCEPT ![i] = n] ELSE Append(mem, n)

clearNights == <<>>

\* dateKey(d): the calendar date of the instant, the device running on UTC
dateKey(ms) == DateStr(ms)

RECURSIVE SeedFrom(_, _)
\* the loop of seed7FakeNights from index i down to 0 over the array mem; the
\* date string `${date}T01:${startM}:00` with startM = 60 is no date, and
\* toISOString() of an invalid date throws a RangeError
SeedFrom(i, mem) ==
    IF i < 0 THEN [mem |-> mem, error |-> ""]
    ELSE LET d == NowMs - i * 86400000
             date == dateKey(d)
             startH == 1
             startM == 0 + Max(0, 3 - i) * 20
             endH == 8
             endM == 30
             midnight == getTime(date)
         IN  IF startM > 59
             THEN [mem |-> mem, error |-> "RangeError"]
             ELSE SeedFrom(i - 1,
                      Append(mem, [date |-> date,
                                   sleep_start |-> IsoStr(midnight + (startH * 60 + startM) * 60000),
                                   sleep_end |-> IsoStr(midnight + (endH * 60 + endM) * 60000)]))

\* MEM = []; for (let i = 6; i >= 0; i--) { ... }
seed7FakeNights == SeedFrom(6, <<>>)


(***************************************************************************)
(* Inputs                                                                  *)
(***************************************************************************)
Pad(s) == [s EXCEPT !.pad = TRUE]

\* a night as a user or a CSV file states it: date of the given day, start and
\* end in milliseconds after that day's midnight
NightOn(day, startMs, endMs) ==
    [date |-> DateStr(day * 86400000),
     sleep_start |-> IsoStr(day * 86400000 + startMs),
     sleep_end |-> IsoStr(day * 86400000 + endMs)]

CsvNights ==
    { NightOn(NowDay - 1, 3600000, 30600000),      \* 01:00 - 08:30
      NightOn(NowDay - 2, 83430500, 111610000),    \* 23:10:30.5 - 07:00:10 next day
      NightOn(NowDay - 1, 10800000, 7200000) }     \* 03:00 - 02:00, the same date again

Headers ==
    { <<Txt("date"), Txt("sleep_start"), Txt("sleep_end")>>,
      <<Txt("SLEEP_END"), Pad(Txt("Date")), Txt("Sleep_Start")>>,
      <<Txt("date"), Txt("sleep_start")>>,
      <<Txt("date"), Txt("note"), Txt("sleep_start"), Txt("sleep_end")>> }

\* the line of night n under header h
RowFor(h, n) ==
    [i \in 1..Len(h) |->
        LET name == toLowerCase(trim(h[i])).t
        IN  CASE name = "date" -> n.date
              [] name = "sleep_start" -> n.sleep_start
              [] name = "sleep_end" -> n.sleep_end
              [] OTHER -> Txt("")]

\* the line of night n with the cell under column `name` left blank
RowWithout(h, n, name) ==
    [i \in 1..Len(h) |->
        IF toLowerCase(trim(h[i])).t = name THEN Pad(Txt("")) ELSE RowFor(h, n)[i]]

BlankLine == <<Pad(Txt(""))>>

RowsFor(h) ==
    LET n0 == NightOn(NowDay - 1, 3600000, 30600000)
    IN  { RowFor(h, n) : n \in CsvNights }
        \cup { BlankLine }
        \cup { SubSeq(RowFor(h, n0), 1, Len(h) - 1) }          \* one field short
        \cup { RowFor(h, n0) \o <<Txt("x")>> }                 \* one field more
        \cup { RowWithout(h, n0, "sleep_end") }                \* a value missing
        \cup { [i \in 1..Len(h) |-> Pad(Txt(""))] }            \* no values

\* a text without any line that is not blank, or a header, up to MaxCsvRows
\* lines below it, a blank line before it or not
CsvFiles ==
    { <<>>, <<BlankLine>> } \cup
    UNION { { lead \o <<h>> \o body :
                lead \in {<<>>, <<BlankLine>>},
                body \in UNION { [1..k -> RowsFor(h)] : k \in 0..MaxCsvRows } }
            : h \in Headers }

LongMids == {300, 480, 690}
ShortMids == {300, 390, 480, 658, 690}

\* a derived night of eight hours centred on midsleep m
DerivedAt(m) ==
    [date |-> DateStr((m - 240) * 60000), sleep_start |-> IsoStr((m - 240) * 60000),
     sleep_end |-> IsoStr((m + 240) * 60000), duration_min |-> 480,
     midsleep_min_epoch |-> m]

Windows ==
    { [i \in 1..Len(f) |-> DerivedAt(f[i])] :
        f \in UNION { [1..k -> LongMids] : k \in 0..MaxWindow }
              \cup UNION { [1..k -> ShortMids] : k \in 0..MaxShort } }

SubMinute == {0, 29999, 30000, 59999}

RawNights ==
    { [date |-> DateStr((NowDay * 1440 + sm) * 60000),
       sleep_start |-> IsoStr((NowDay * 1440 + sm) * 60000 + sms),
       sleep_end |-> IsoStr((NowDay * 1440 + em) * 60000 + ems)] :
        sm \in {60, 61}, sms \in SubMinute, em \in 58..(61 + MaxDur), ems \in SubMinute }

Spans ==
    { <<3600000, 32400000>>,      \* 01:00 - 09:00
      <<3600000, 3600000>>,       \* end = start
      <<3600000, 3780000>>,       \* three minutes
      <<3630000, 32489999>> }     \* 01:00:30 - 09:01:29.999

StNights ==
    { NightOn(NowDay - d, sp[1], sp[2]) : d \in 0..(MaxDates - 1), sp \in Spans }

(***************************************************************************)
(* The App component: one action per handler                               *)
(***************************************************************************)
Idle == /\ MEM = <<>> /\ got = <<>> /\ window = <<>> /\ snapshot = <<>>
        /\ raw = <<>> /\ derivedOut = <<>> /\ derivedSt = <<>>
        /\ arg = <<>> /\ task = <<>> /\ csvText = <<>> /\ result = <<>> /\ nudge = <<>>

Init == /\ store = <<>>
        /\ nights = <<>>
        /\ lastOp = "init"
        /\ Idle

AppFrame == UNCHANGED <<MEM, got, window, snapshot, raw, derivedOut, derivedSt,
                        arg, task, csvText, result, nudge>>

\* const refresh = async () => { const raw = await readNightsRaw(); setNights(raw); }
Refresh ==
    /\ nights' = readRaw(store)
    /\ lastOp' = "refresh"
    /\ UNCHANGED store
    /\ AppFrame

Seed7 ==
    LET fake == << makeFake(0, 4, 30, 210), makeFake(1, 4, 30, 180),
                   makeFake(2, 4, 30, 120), makeFake(3, 4, 30, 90),
                   makeFake(4, 4, 30, 60), makeFake(5, 4, 30, 30),
                   makeFake(6, 4, 30, 0) >>
    IN  /\ store' = writeRaw(fake)
        /\ nights' = readRaw(store')
        /\ lastOp' = "seed7"
        /\ AppFrame

\* the store is cleared and the React state is left as it was
Clear_keepsNights ==
    /\ store' = clearAll
    /\ lastOp' = "clear"
    /\ UNCHANGED nights
    /\ AppFrame

\* try { await writeNightsRaw([]); await clearAll(); } finally { setNights([]); ... }
Clear ==
    /\ store' = clearAll          \* after writeRaw(<<>>), which leaves it empty as well
    /\ nights' = <<>>
    /\ lastOp' = "clear"
    /\ AppFrame

\* what parseCsvToNights makes of the files a user can pick
ParsedFiles == { parseCsvToNights(csv) : csv \in CsvFiles }

\* the picker is cancelled, yields no asset, the file cannot be read, or the
\* text of the file is parsed
ImportCsv ==
    /\ \/ /\ \E pick \in {"canceled", "noAsset", "readError"} : TRUE
          /\ UNCHANGED <<store, nights>>
       \/ \E parsed \in ParsedFiles :
              IF parsed.err = ""
              THEN /\ store' = writeRaw(parsed.nights)
                   /\ nights' = readRaw(store')
              ELSE UNCHANGED <<store, nights>>
    /\ lastOp' = "importCsv"
    /\ AppFrame

\* const updated = [...nights, night]; await writeNightsRaw(updated); await refresh();
appendNight(night) ==
    /\ store' = writeRaw(Append(nights, night))
    /\ nights' = readRaw(store')

\* stats.baselineMid ?? toMinutes(new Date()) + 4 * 60
MidOrNow(stats) ==
    IF stats.baselineMid # <<>> THEN stats.baselineMid[1] ELSE toMinutes(NowMs) + 4 * 60

\* the night is aimed a minute past the baseline
LogOnTrackNight_minuteLate ==
    /\ Len(nights) < MaxNights
    /\ appendNight(nightFromMidsleep(MidOrNow(statsOf(nights)) + 1, 0))
    /\ lastOp' = "logOnTrackNight"
    /\ AppFrame

LogOnTrackNight ==
    /\ Len(nights) < MaxNights
    /\ appendNight(nightFromMidsleep(MidOrNow(statsOf(nights)), 0))
    /\ lastOp' = "logOnTrackNight"
    /\ AppFrame

\* the night is aimed one hour past the baseline
LogLateNight_oneHour ==
    /\ Len(nights) < MaxNights
    /\ appendNight(nightFromMidsleep(MidOrNow(statsOf(nights)) + 60, 0))
    /\ lastOp' = "logLateNight"
    /\ AppFrame

LogLateNight ==
    /\ Len(nights) < MaxNights
    /\ appendNight(nightFromMidsleep(MidOrNow(statsOf(nights)) + 3 * 60, 0))
    /\ lastOp' = "logLateNight"
    /\ AppFrame

Next == \/ Refresh
        \/ Seed7
        \/ Clear
        \/ ImportCsv
        \/ LogOnTrackNight
        \/ LogLateNight

Spec == Init /\ [][Next]_vars

\* what the App renders
stats == statsOf(nights)

(***************************************************************************)
(* The storage module on its own                                           *)
(***************************************************************************)
StFrame == UNCHANGED <<store, nights, window, snapshot, raw, derivedOut, derivedSt,
                       task, csvText, result, nudge>>

InitStorage ==
    /\ store = <<>> /\ nights = <<>> /\ lastOp = "init"
    /\ MEM = <<>> /\ got = <<>>
    /\ window = <<>> /\ snapshot = <<>> /\ raw = <<>>
    /\ derivedOut = <<>> /\ derivedSt = <<>>
    /\ arg = <<>> /\ task = <<>> /\ csvText = <<>> /\ result = <<>> /\ nudge = <<>>

UpsertNight ==
    \E n \in StNights :
        /\ MEM' = upsertNight(MEM, n)
        /\ arg' = n
        /\ got' = <<>>
        /\ lastOp' = "upsertNight"
        /\ StFrame

ClearNights ==
    /\ MEM' = clearNights
    /\ arg' = <<>>
    /\ got' = <<>>
    /\ lastOp' = "clearNights"
    /\ StFrame

\* the array is left as the loop left it when the call throws
Seed7FakeNights ==
    /\ MEM' = seed7FakeNights.mem
    /\ got' = [error |-> seed7FakeNights.error]
    /\ arg' = <<>>
    /\ lastOp' = "seed7FakeNights"
    /\ StFrame

\* limit 14 is the default
GetDerivedNights ==
    \E limit \in (0..MaxLimit) \cup {14} :
        /\ got' = getDerivedNights(MEM, limit)
        /\ arg' = limit
        /\ lastOp' = "getDerivedNights"
        /\ UNCHANGED MEM
        /\ StFrame

NextStorage == UpsertNight \/ ClearNights \/ GetDerivedNights \/ Seed7FakeNights

SpecStorage == InitStorage /\ [][NextStorage]_vars

(***************************************************************************)
(* summarize and derive on their own                                       *)
(***************************************************************************)
InitSummarize ==
    /\ store = <<>> /\ nights = <<>> /\ lastOp = "init"
    /\ MEM = <<>> /\ got = <<>>
    /\ window \in Windows
    /\ snapshot = <<>> /\ raw = <<>> /\ derivedOut = <<>> /\ derivedSt = <<>>
    /\ arg = <<>> /\ task = <<>> /\ csvText = <<>> /\ result = <<>> /\ nudge = <<>>

Summarize ==
    /\ lastOp = "init"
    /\ snapshot' = summarize(window)
    /\ lastOp' = "summarize"
    /\ UNCHANGED <<store, nights, MEM, got, window, raw, derivedOut, derivedSt,
                 arg, task, csvText, result, nudge>>

NextSummarize == Summarize

SpecSummarize == InitSummarize /\ [][NextSummarize]_vars

InitDerive ==
    /\ store = <<>> /\ nights = <<>> /\ lastOp = "init"
    /\ MEM = <<>> /\ got = <<>> /\ window = <<>> /\ snapshot = <<>>
    /\ raw \in RawNights
    /\ derivedOut = <<>> /\ derivedSt = <<>>
    /\ arg = <<>> /\ task = <<>> /\ csvText = <<>> /\ result = <<>> /\ nudge = <<>>

Derive ==
    /\ lastOp = "init"
    /\ derivedOut' = derive(raw)
    /\ lastOp' = "derive"
    /\ UNCHANGED <<store, nights, MEM, got, window, snapshot, raw, derivedSt,
                 arg, task, csvText, result, nudge>>

DeriveStorage ==
    /\ lastOp = "init"
    /\ derivedSt' = derive_storage(raw)
    /\ lastOp' = "derive_storage"
    /\ UNCHANGED <<store, nights, MEM, got, window, snapshot, raw, derivedOut,
                 arg, task, csvText, result, nudge>>

NextDerive == Derive \/ DeriveStorage

SpecDerive == InitDerive /\ [][NextDerive]_vars

(***************************************************************************)
(* parseCsvToNights on its own                                             *)
(***************************************************************************)
InitCsv ==
    /\ store = <<>> /\ nights = <<>> /\ lastOp = "init"
    /\ MEM = <<>> /\ got = <<>> /\ window = <<>> /\ snapshot = <<>>
    /\ raw = <<>> /\ derivedOut = <<>> /\ derivedSt = <<>>
    /\ arg = <<>> /\ task = <<>>
    /\ csvText \in CsvFiles
    /\ result = <<>> /\ nudge = <<>>

ParseCsv ==
    /\ lastOp = "init"
    /\ result' = parseCsvToNights(csvText)
    /\ lastOp' = "parseCsvToNights"
    /\ UNCHANGED <<store, nights, MEM, got, window, snapshot, raw, derivedOut, derivedSt,
                   arg, task, csvText, nudge>>

NextCsv == ParseCsv

SpecCsv == InitCsv /\ [][NextCsv]_vars

(***************************************************************************)
(* importCsv over files whose timestamp cells hold arbitrary text.  The    *)
(* file picked and what parseCsvToNights made of it are kept in csvText    *)
(* and result.                                                             *)
(***************************************************************************)
\* rows under the header date,sleep_start,sleep_end: two nights, and nights whose
\* sleep_start or sleep_end is no timestamp
ImportRows ==
    LET d == DateStr((NowDay - 1) * 86400000)
        good == NightOn(NowDay - 1, 3600000, 30600000)
    IN  { <<n.date, n.sleep_start, n.sleep_end>> :
             n \in {good, NightOn(NowDay - 2, 83430500, 111610000)} }
        \cup { <<d, Txt("late"), good.sleep_end>>,
               <<d, good.sleep_start, Txt("8am")>> }

ImportFiles ==
    { <<h>> \o body :
        h \in { <<Txt("date"), Txt("sleep_start"), Txt("sleep_end")>>,
                <<Txt("date"), Txt("sleep_start")>> },
        body \in UNION { [1..k -> ImportRows] : k \in 0..MaxCsvRows } }

ImportFrame == UNCHANGED <<MEM, got, window, snapshot, raw, derivedOut, derivedSt, arg, task,
                         nudge>>

\* importCsv: the picker is cancelled, yields no asset or the file cannot be
\* read; otherwise the text is parsed, written and read back, or the error
\* thrown is shown in the "Import failed" alert.  ImportCsvText_clearsFirst
\* writes whatever the parse left before it looks at the error.
ImportCsvText_clearsFirst ==
    /\ \/ /\ \E pick \in {"canceled", "noAsset", "readError"} :
                 result' = [err |-> pick, nights |-> <<>>]
          /\ csvText' = <<>>
          /\ UNCHANGED <<store, nights>>
       \/ \E file \in ImportFiles :
              /\ csvText' = file
              /\ result' = parseCsvToNights(file)
              /\ store' = writeRaw(result'.nights)
              /\ nights' = IF result'.err = "" THEN readRaw(store') ELSE nights
    /\ lastOp' = "importCsv"
    /\ ImportFrame

ImportCsvText ==
    /\ \/ /\ \E pick \in {"canceled", "noAsset", "readError"} :
                 result' = [err |-> pick, nights |-> <<>>]
          /\ csvText' = <<>>
          /\ UNCHANGED <<store, nights>>
       \/ \E file \in ImportFiles :
              /\ csvText' = file
              /\ result' = parseCsvToNights(file)
              /\ IF result'.err = ""
                 THEN /\ store' = writeRaw(result'.nights)
                      /\ nights' = readRaw(store')
                 ELSE UNCHANGED <<store, nights>>
    /\ lastOp' = "importCsv"
    /\ ImportFrame

\* clear, as in Clear
ClearData ==
    /\ store' = clearAll
    /\ nights' = <<>>
    /\ lastOp' = "clear"
    /\ UNCHANGED <<csvText, result, nudge>>
    /\ ImportFrame

NextImport == ImportCsvText \/ ClearData

SpecImport == Init /\ [][NextImport]_vars

(***************************************************************************)
(* One night-logging handler and one clear handler in flight together.     *)
(* A handler runs from one await to the next without interruption; every   *)
(* call of the store is one step, taken some time after it was issued.     *)
(* task.append and task.clear are the awaits the two handlers stand at.    *)
(***************************************************************************)
\* the stores the two handlers may find: empty or as an import left it
AsyncStores == {<<>>} \cup { p.nights : p \in { q \in ParsedFiles : q.err = "" } }

InitAsync ==
    /\ store \in AsyncStores
    /\ nights = readRaw(store)
    /\ lastOp = "init"
    /\ task = [append |-> "idle", clear |-> "idle", night |-> <<>>,
               updated |-> <<>>, raw |-> <<>>]
    /\ MEM = <<>> /\ got = <<>> /\ window = <<>> /\ snapshot = <<>>
    /\ raw = <<>> /\ derivedOut = <<>> /\ derivedSt = <<>>
    /\ arg = <<>> /\ csvText = <<>> /\ result = <<>> /\ nudge = <<>>

AsyncFrame == UNCHANGED <<MEM, got, window, snapshot, raw, derivedOut, derivedSt,
                          arg, csvText, result, nudge>>

\* logOnTrackNight / logLateNight up to `await writeNightsRaw(updated)`: the
\* night is built from the rendered stats and appended to the rendered nights
AppendStart ==
    \E offset \in {0, 3 * 60} :
        LET night == nightFromMidsleep(MidOrNow(statsOf(nights)) + offset, 0)
        IN  /\ task.append = "idle"
            /\ task' = [task EXCEPT !.append = "writeRaw", !.night = night,
                                    !.updated = Append(nights, night)]
            /\ lastOp' = IF offset = 0 THEN "logOnTrackNight" ELSE "logLateNight"
            /\ UNCHANGED <<store, nights>>
            /\ AsyncFrame

\* await writeNightsRaw(updated)
AppendWrite ==
    /\ task.append = "writeRaw"
    /\ store' = writeRaw(task.updated)
    /\ task' = [task EXCEPT !.append = "readRaw"]
    /\ lastOp' = "appendNight"
    /\ UNCHANGED nights
    /\ AsyncFrame

\* refresh: const raw = await readNightsRaw()
AppendRead ==
    /\ task.append = "readRaw"
    /\ task' = [task EXCEPT !.append = "setNights", !.raw = readRaw(store)]
    /\ lastOp' = "refresh"
    /\ UNCHANGED <<store, nights>>
    /\ AsyncFrame

\* refresh: setNights(raw)
AppendSet ==
    /\ task.append = "setNights"
    /\ nights' = task.raw
    /\ task' = [task EXCEPT !.append = "done"]
    /\ lastOp' = "refresh"
    /\ UNCHANGED store
    /\ AsyncFrame

\* clear up to `await writeNightsRaw([])`
ClearStart ==
    /\ task.clear = "idle"
    /\ task' = [task EXCEPT !.clear = "writeRaw"]
    /\ lastOp' = "clear"
    /\ UNCHANGED <<store, nights>>
    /\ AsyncFrame

\* await writeNightsRaw([])
ClearWrite ==
    /\ task.clear = "writeRaw"
    /\ store' = writeRaw(<<>>)
    /\ task' = [task EXCEPT !.clear = "clearAll"]
    /\ lastOp' = "clear"
    /\ UNCHANGED nights
    /\ AsyncFrame

\* await clearAll()
ClearAllStep ==
    /\ task.clear = "clearAll"
    /\ store' = clearAll
    /\ task' = [task EXCEPT !.clear = "finally"]
    /\ lastOp' = "clear"
    /\ UNCHANGED nights
    /\ AsyncFrame

\* finally { setNights([]); ... }
ClearFinally ==
    /\ task.clear = "finally"
    /\ nights' = <<>>
    /\ task' = [task EXCEPT !.clear = "done"]
    /\ lastOp' = "clear"
    /\ UNCHANGED store
    /\ AsyncFrame

NextAsync == \/ AppendStart
             \/ AppendWrite
             \/ AppendRead
             \/ AppendSet
             \/ ClearStart
             \/ ClearWrite
             \/ ClearAllStep
             \/ ClearFinally

SpecAsync == InitAsync /\ [][NextAsync]_vars

(***************************************************************************)
(* Two night-logging handlers, a and b, in flight together; task.pc is the *)
(* await each stands at, task.before the store when the first one started, *)
(* task.overlap whether one started while the other was in flight.         *)
(***************************************************************************)
Handlers == {"a", "b"}

InitAppends ==
    /\ store \in AsyncStores
    /\ nights = readRaw(store)
    /\ lastOp = "init"
    /\ task = [pc |-> [h \in Handlers |-> "idle"],
               night |-> [h \in Handlers |-> <<>>],
               updated |-> [h \in Handlers |-> <<>>],
               raw |-> [h \in Handlers |-> <<>>],
               before |-> store,
               overlap |-> FALSE]
    /\ MEM = <<>> /\ got = <<>> /\ window = <<>> /\ snapshot = <<>>
    /\ raw = <<>> /\ derivedOut = <<>> /\ derivedSt = <<>>
    /\ arg = <<>> /\ csvText = <<>> /\ result = <<>> /\ nudge = <<>>

InFlight(h) == task.pc[h] \notin {"idle", "done"}

\* logOnTrackNight / logLateNight up to `await writeNightsRaw(updated)`
LogStart(h) ==
    \E offset \in {0, 3 * 60} :
        LET night == nightFromMidsleep(MidOrNow(statsOf(nights)) + offset, 0)
            first == \A g \in Handlers : task.pc[g] = "idle"
        IN  /\ task.pc[h] = "idle"
            /\ task' = [task EXCEPT !.pc[h] = "writeRaw", !.night[h] = night,
                                    !.updated[h] = Append(nights, night),
                                    !.before = IF first THEN store ELSE @,
                                    !.overlap = @ \/ \E g \in Handlers : InFlight(g)]
            /\ lastOp' = IF offset = 0 THEN "logOnTrackNight" ELSE "logLateNight"
            /\ UNCHANGED <<store, nights>>
            /\ AsyncFrame

\* await writeNightsRaw(updated)
LogWrite(h) ==
    /\ task.pc[h] = "writeRaw"
    /\ store' = writeRaw(task.updated[h])
    /\ task' = [task EXCEPT !.pc[h] = "readRaw"]
    /\ lastOp' = "appendNight"
    /\ UNCHANGED nights
    /\ AsyncFrame

\* refresh: const raw = await readNightsRaw()
LogRead(h) ==
    /\ task.pc[h] = "readRaw"
    /\ task' = [task EXCEPT !.pc[h] = "setNights", !.raw[h] = readRaw(store)]
    /\ lastOp' = "refresh"
    /\ UNCHANGED <<store, nights>>
    /\ AsyncFrame

\* refresh: setNights(raw)
LogSet(h) ==
    /\ task.pc[h] = "setNights"
    /\ nights' = task.raw[h]
    /\ task' = [task EXCEPT !.pc[h] = "done"]
    /\ lastOp' = "refresh"
    /\ UNCHANGED store
    /\ AsyncFrame

NextAppends == \E h \in Handlers : LogStart(h) \/ LogWrite(h) \/ LogRead(h) \/ LogSet(h)

SpecAppends == InitAppends /\ [][NextAppends]_vars

(***************************************************************************)
(* The nudge handlers.  nudge.platform is Platform.OS, nudge.perm the      *)
(* state `perm` as the mount effect set it, nudge.native whether the nudge *)
(* handler that ran last called Notifications.scheduleNotificationAsync,   *)
(* nudge.alert the title of the alert it raised ("" for none).             *)
(***************************************************************************)
Platforms == {"ios", "android", "web"}
Perms == {"granted", "denied", "undetermined"}

InitNudge ==
    /\ store = <<>> /\ nights = <<>> /\ lastOp = "init"
    /\ nudge \in [platform : Platforms, perm : Perms, native : {FALSE}, alert : {""}]
    /\ MEM = <<>> /\ got = <<>> /\ window = <<>> /\ snapshot = <<>>
    /\ raw = <<>> /\ derivedOut = <<>> /\ derivedSt = <<>>
    /\ arg = <<>> /\ task = <<>> /\ csvText = <<>> /\ result = <<>>

NudgeFrame == UNCHANGED <<store, nights, MEM, got, window, snapshot, raw, derivedOut,
                          derivedSt, arg, task, csvText, result>>

FireNudgeNow ==
    LET enoughData == statsOf(nights).coverage >= 3
        native == nudge.platform # "web" /\ nudge.perm = "granted" /\ enoughData
        alert == IF ~native /\ nudge.platform # "web" /\ nudge.perm # "granted"
                 THEN "Notifications disabled" ELSE ""
    IN  /\ nudge' = [nudge EXCEPT !.native = native, !.alert = alert]
        /\ lastOp' = "fireNudgeNow"
        /\ NudgeFrame

ScheduleDemoNudge ==
    /\ nudge' = IF nudge.platform = "web"
                THEN [nudge EXCEPT !.native = FALSE, !.alert = ""]
                ELSE IF nudge.perm # "granted"
                THEN [nudge EXCEPT !.native = FALSE, !.alert = "Notifications disabled"]
                ELSE [nudge EXCEPT !.native = TRUE, !.alert = "Demo scheduled"]
    /\ lastOp' = "scheduleDemoNudge"
    /\ NudgeFrame

LogNight ==
    /\ Len(nights) < MaxNudgeNights
    /\ (LogOnTrackNight \/ LogLateNight)

NextNudge == LogNight \/ Clear \/ FireNudgeNow \/ ScheduleDemoNudge

SpecNudge == InitNudge /\ [][NextNudge]_vars

(***************************************************************************)
(* nightFromMidsleep and derive on the pair arg of a midsleep and an       *)
(* offset, beside the two handlers that log a night through it.            *)
(***************************************************************************)
\* midsleeps around the epoch, before it, and around the clock's time
SynthMids == { c + d : c \in {-1440, 0, NowDay * 1440 + 1320}, d \in (0 - MaxMid)..MaxMid }

SynthOffsets == {-180, -1, 0, 180}

InitSynth ==
    /\ store = <<>> /\ nights = <<>> /\ lastOp = "init"
    /\ arg \in [m : SynthMids, o : SynthOffsets]
    /\ MEM = <<>> /\ got = <<>> /\ window = <<>> /\ snapshot = <<>>
    /\ raw = <<>> /\ derivedOut = <<>> /\ derivedSt = <<>>
    /\ task = <<>> /\ csvText = <<>> /\ result = <<>> /\ nudge = <<>>

\* derive(nightFromMidsleep(m, o))
Synthesize ==
    /\ raw' = nightFromMidsleep(arg.m, arg.o)
    /\ derivedOut' = derive(raw')
    /\ lastOp' = "nightFromMidsleep"
    /\ UNCHANGED <<store, nights, MEM, got, window, snapshot, derivedSt,
                   arg, task, csvText, result, nudge>>

\* LogNight and Clear leave arg, raw and derivedOut as they are
NextSynth == Synthesize \/ LogNight \/ Clear

SpecSynth == InitSynth /\ [][NextSynth]_vars

(***************************************************************************)
(* The App over a store of nights on consecutive dates that all start and  *)
(* end at the same time of day.                                            *)
(***************************************************************************)
\* start and end in milliseconds after midnight of the night's date
RegularClocks ==
    { <<3600000, 30600000>>,      \* 01:00 - 08:30
      <<0, 28800000>>,            \* 00:00 - 08:00
      <<82800000, 111600000>>,    \* 23:00 - 07:00 the next day
      <<5415000, 30645000>> }     \* 01:30:15 - 08:30:45

\* k nights from day `first` on, oldest first or newest first
RegularRuns ==
    { [i \in 1..k |-> NightOn(IF up THEN first + i - 1 ELSE first + k - i, c[1], c[2])] :
        k \in 1..MaxRun, first \in 0..(NowDay - MaxRun), c \in RegularClocks,
        up \in BOOLEAN }

InitRegular ==
    /\ store \in RegularRuns
    /\ nights = <<>>
    /\ lastOp = "init"
    /\ Idle

NextRegular == Refresh

SpecRegular == InitRegular /\ [][NextRegular]_vars

(***************************************************************************)
(* Add late night over stores of up to MaxRun nights.                      *)
(***************************************************************************)
\* midsleeps, in minutes since the epoch: one far earlier than the others
LateMids == { (NowDay - 1) * 1440 + m : m \in {-300, 300, 400} }

LateStores ==
    { [i \in DOMAIN f |-> nightFromMidsleep(f[i], 0)] :
        f \in UNION { [1..k -> LateMids] : k \in 0..MaxRun } }

InitLate ==
    /\ store \in LateStores
    /\ nights = readRaw(store)
    /\ lastOp = "init"
    /\ Idle

NextLate == LogLateNight

SpecLate == InitLate /\ [][NextLate]_vars


(***************************************************************************)
(* Properties                                                              *)
(***************************************************************************)
\* the label the App renders
label == riskLabel(stats)

MidsOf(w) == [i \in 1..Len(w) |-> w[i].midsleep_min_epoch]

RECURSIVE SeqSum(_)
SeqSum(s) == IF Len(s) = 0 THEN 0 ELSE s[Len(s)] + SeqSum(SubSeq(s, 1, Len(s) - 1))

\* the midsleeps of the baseline window of the sequence handed to summarize
WindowMids == MidsOf(SubSeq(window, 1, Min(Len(window), BASELINE_WINDOW_DAYS)))

Summarized == lastOp = "summarize"

\* C1: the risk label is INSUFFICIENT_DATA whenever coverage < 3, whatever the
\* drift flag, HIGH exactly when coverage >= 3 and drift, LOW exactly when
\* coverage >= 3 and no drift.
C1_RiskLabelTotal ==
    /\ label \in {"INSUFFICIENT_DATA", "HIGH", "LOW"}
    /\ (label = "INSUFFICIENT_DATA") <=> (stats.coverage < 3)
    /\ (label = "HIGH") <=> (stats.coverage >= 3 /\ stats.drift)
    /\ (label = "LOW") <=> (stats.coverage >= 3 /\ ~stats.drift)

\* two nights three hours apart: drift is raised and the label still withholds it
C1_Witness ==
    /\ stats.coverage = 2
    /\ stats.drift
    /\ label = "INSUFFICIENT_DATA"

\* C2: drift is true if and only if baselineMid is not null and
\* |recentLateness| >= 90; 90 and -90 raise it, 89 and -89 do not.
C2_DriftIffThreshold ==
    Summarized =>
        /\ snapshot.drift <=>
              /\ snapshot.baselineMid # <<>>
              /\ \/ snapshot.recentLateness >= 90
                 \/ snapshot.recentLateness <= -90
        /\ snapshot.recentLateness \in {90, -90} => snapshot.drift
        /\ snapshot.recentLateness \in {89, -89} => ~snapshot.drift

\* the most recent night is exactly 90 minutes earlier than the baseline
C2_Witness ==
    /\ Summarized
    /\ snapshot.recentLateness = -90
    /\ snapshot.drift

\* C3 as stated: a window of 2 to 7 nights whose most recent midsleep is
\* exactly 90 minutes later than the mean midsleep of all the other nights
\* yields drift.
C3_Original ==
    (/\ Summarized
     /\ Len(window) \in 2..BASELINE_WINDOW_DAYS
     /\ (Len(window) - 1) * (window[1].midsleep_min_epoch - 90)
            = SeqSum(Tail(MidsOf(window))))
        => snapshot.drift

\* C3 as amended: a window of 2 to 7 nights whose most recent midsleep is
\* exactly 90 minutes later than the mean midsleep of all the nights of the
\* window, the most recent one included, yields drift.
C3_NinetyOverWindowMean ==
    (/\ Summarized
     /\ Len(window) \in 2..BASELINE_WINDOW_DAYS
     /\ Len(window) * (window[1].midsleep_min_epoch - 90) = SeqSum(MidsOf(window)))
        => snapshot.drift

C3_Witness ==
    /\ Summarized
    /\ Len(window) = 3
    /\ Len(window) * (window[1].midsleep_min_epoch - 90) = SeqSum(MidsOf(window))
    /\ snapshot.drift

\* C4: a window of 1 to 7 nights that all share the midsleep M yields
\* baselineMid M, recentLateness 0, regularityLoss 0 and no drift.
C4_ConstantWindow ==
    (/\ Summarized
     /\ Len(window) \in 1..BASELINE_WINDOW_DAYS
     /\ \A i \in 1..Len(window) :
            window[i].midsleep_min_epoch = window[1].midsleep_min_epoch)
        => /\ snapshot.baselineMid = <<window[1].midsleep_min_epoch>>
           /\ snapshot.recentLateness = 0
           /\ snapshot.regularityLoss = 0
           /\ snapshot.drift = FALSE

C4_Witness ==
    /\ Summarized
    /\ MidsOf(window) = <<480, 480, 480>>
    /\ snapshot.baselineMid = <<480>>
    /\ ~snapshot.drift

\* C5: for a non-empty window baselineMid is the floor of the mean of the
\* window's midsleeps and recentLateness is the first night's midsleep minus
\* baselineMid; six nights at 480 behind one at 690 give 510, 180 and drift.
C5_FloorMeanAndLateness ==
    (Summarized /\ Len(window) > 0) =>
        LET n == Len(WindowMids)
            total == SeqSum(WindowMids)
        IN  /\ snapshot.baselineMid # <<>>
            /\ snapshot.baselineMid[1] * n <= total
            /\ total < (snapshot.baselineMid[1] + 1) * n
            /\ snapshot.recentLateness = WindowMids[1] - snapshot.baselineMid[1]
            /\ MidsOf(window) = <<690, 480, 480, 480, 480, 480, 480>> =>
                  /\ snapshot.baselineMid = <<510>>
                  /\ snapshot.recentLateness = 180
                  /\ snapshot.drift

C5_Witness ==
    /\ Summarized
    /\ MidsOf(window) = <<690, 480, 480, 480, 480, 480, 480>>
    /\ snapshot.baselineMid = <<510>>
    /\ snapshot.recentLateness = 180


EmptySnapshot ==
    [coverage |-> 0, baselineMid |-> <<>>, recentLateness |-> 0,
     regularityLoss |-> 0, drift |-> FALSE]

\* C6: with an empty store, and after any clear, the stats have coverage 0,
\* baselineMid null, recentLateness 0, regularityLoss 0 and no drift, and the
\* risk label is INSUFFICIENT_DATA.
C6_EmptyStore ==
    /\ lastOp = "clear" => store = <<>>
    /\ store = <<>> =>
          /\ stats = EmptySnapshot
          /\ label = "INSUFFICIENT_DATA"

C6_Witness ==
    /\ lastOp = "clear"
    /\ store = <<>>
    /\ stats.coverage = 0
    /\ stats.baselineMid = <<>>

\* C7: regularityLoss is the sum over the nights of the window of
\* |midsleep - baselineMid|, is 0 whenever coverage <= 1, and is never negative.
C7_RegularityLoss ==
    Summarized =>
        /\ snapshot.coverage >= 1 =>
              snapshot.regularityLoss =
                  SeqSum([i \in 1..Len(WindowMids) |->
                             IF WindowMids[i] >= snapshot.baselineMid[1]
                             THEN WindowMids[i] - snapshot.baselineMid[1]
                             ELSE snapshot.baselineMid[1] - WindowMids[i]])
        /\ snapshot.coverage <= 1 => snapshot.regularityLoss = 0
        /\ snapshot.regularityLoss >= 0

C7_Witness ==
    /\ Summarized
    /\ MidsOf(window) = <<690, 480, 480, 480, 480, 480, 480>>
    /\ snapshot.regularityLoss = 360

\* the midsleeps of the stored nights, in store order
StoredMids(ns) == [i \in 1..Len(ns) |-> derive(ns[i]).midsleep_min_epoch]

\* how many nights are more recent than the i-th: a later midsleep, or the
\* same midsleep and an earlier place in the store
Rank(mids, i) ==
    Cardinality({ j \in 1..Len(mids) :
                    \/ mids[j] > mids[i]
                    \/ mids[j] = mids[i] /\ j < i })

\* the min(n, 7) most recent nights, most recent first
RecentFirst(ns) ==
    LET mids == StoredMids(ns)
        rank == [i \in 1..Len(ns) |-> Rank(mids, i)]
    IN  [r \in 1..Min(Len(ns), 7) |->
            derive(ns[CHOOSE i \in 1..Len(ns) : rank[i] = r - 1])]

\* the stored nights that are not among the 7 most recent
OlderNights(ns) ==
    LET mids == StoredMids(ns)
    IN  { i \in 1..Len(ns) : Rank(mids, i) >= 7 }

Without(ns, i) == SubSeq(ns, 1, i - 1) \o SubSeq(ns, i + 1, Len(ns))

\* C8: the stats of a store of n nights are computed over exactly the
\* min(n, 7) most recent nights, most recent first: coverage = min(n, 7),
\* 0 <= coverage <= 7, and a night older than the 7 most recent has no
\* influence on baselineMid, recentLateness, regularityLoss or drift.
C8_WindowOfMostRecent ==
    /\ stats.coverage = Min(Len(store), 7)
    /\ stats.coverage \in 0..7
    /\ lastNOf(derivedOf(nights)) = RecentFirst(store)
    /\ \A i \in OlderNights(store) : statsOf(Without(store, i)) = stats

\* more than seven nights stored, the seven most recent summarized, an older
\* night far from the baseline left out
C8_Witness ==
    /\ Len(store) = 8
    /\ stats.coverage = 7
    /\ \E i \in OlderNights(store) :
          StoredMids(store)[i] < stats.baselineMid[1] - 90

Derived == lastOp = "derive"

\* the instants of the night handed to derive, in milliseconds
RawStartMs == raw.sleep_start.a * 60000 + raw.sleep_start.b
RawEndMs == raw.sleep_end.a * 60000 + raw.sleep_end.b

\* C9: for a night whose sleep_end is D whole minutes after sleep_start,
\* App.tsx derive returns duration_min = D and
\* midsleep_min_epoch = start_minutes + floor(D / 2).
C9_DeriveWholeMinutes ==
    (/\ Derived
     /\ RawEndMs > RawStartMs
     /\ (RawEndMs - RawStartMs) % 60000 = 0)
        => LET D == (RawEndMs - RawStartMs) \div 60000
           IN  /\ derivedOut.duration_min = D
               /\ derivedOut.midsleep_min_epoch = raw.sleep_start.a + (D \div 2)

\* five minutes of sleep from 30 seconds past a minute
C9_Witness ==
    /\ Derived
    /\ raw.sleep_start.b = 30000
    /\ RawEndMs - RawStartMs = 5 * 60000
    /\ derivedOut.duration_min = 5
    /\ derivedOut.midsleep_min_epoch = raw.sleep_start.a + 2

\* C10: every DerivedNight that getDerivedNights returns has
\* duration_min = max(0, end_minutes - start_minutes) and
\* midsleep_min_epoch = start_minutes + floor(duration_min / 2).
C10_StorageDerivedInvariant ==
    lastOp = "getDerivedNights" =>
        \A i \in 1..Len(got) :
            LET startMin == got[i].sleep_start.a
                endMin == got[i].sleep_end.a
                dur == IF endMin - startMin > 0 THEN endMin - startMin ELSE 0
            IN  /\ got[i].duration_min = dur
                /\ got[i].midsleep_min_epoch = startMin + (dur \div 2)

DerivedStorage == lastOp = "derive_storage"

\* C11: for a night whose sleep_end is at or before its sleep_start, derive
\* of App.tsx and derive of storage.ts both return a duration_min that is not
\* negative.
C11_DurationNonNegative ==
    RawEndMs <= RawStartMs =>
        /\ Derived => derivedOut.duration_min >= 0
        /\ DerivedStorage => derivedSt.duration_min >= 0

\* a night that ends two minutes before it starts
C11_Witness ==
    /\ Derived
    /\ raw.sleep_end.a = raw.sleep_start.a - 2
    /\ derivedOut.duration_min = 0

\* C12: every derive converts a timestamp to minutes by flooring: an instant
\* t milliseconds (0 <= t < 60000) after the whole minute m converts to m,
\* also when t >= 30000.
C12_FloorInEveryDerive ==
    /\ Derived =>
           /\ toMinutes(fromISO(raw.sleep_start)) = raw.sleep_start.a
           /\ toMinutes(fromISO(raw.sleep_end)) = raw.sleep_end.a
    /\ DerivedStorage =>
           /\ isoToMin(raw.sleep_start) = raw.sleep_start.a
           /\ isoToMin(raw.sleep_end) = raw.sleep_end.a

\* no two nights of the sequence carry the same date
UniqueDates(s) == \A i, j \in 1..Len(s) : i # j => s[i].date # s[j].date

HasDate(s, date) == \E i \in 1..Len(s) : s[i].date = date

\* an upsertNight call of the night arg': a night of that date is replaced
\* where it stands, otherwise the night is added at the end
UpsertStep ==
    lastOp' = "upsertNight" =>
        IF HasDate(MEM, arg'.date)
        THEN /\ Len(MEM') = Len(MEM)
             /\ \E i \in 1..Len(MEM) : /\ MEM[i].date = arg'.date
                                        /\ MEM' = [MEM EXCEPT ![i] = arg']
        ELSE /\ Len(MEM') = Len(MEM) + 1
             /\ MEM' = Append(MEM, arg')

\* C13: after any sequence of upsertNight, clearNights and getDerivedNights
\* calls MEM holds at most one night per date; an upsertNight whose date is
\* already there replaces that night and leaves the count as it was, any other
\* upsertNight adds exactly one night.
C13_OneNightPerDate == [](UniqueDates(MEM)) /\ [][UpsertStep]_vars

\* the night upserted last stands first of two: it replaced the night of its date
C13_Witness ==
    /\ lastOp = "upsertNight"
    /\ Len(MEM) = 2
    /\ MEM[1] = arg
    /\ MEM[2].date # arg.date

\* C14: after any sequence of the App's store-writing actions (Import CSV,
\* Seed, Add on-time night, Add late night, Clear) the night store holds at
\* most one night per calendar date.
C14_StoreOneNightPerDate == UniqueDates(store)

\* C15: an append and a clear that run concurrently leave, once both have
\* completed, the store of one of the two serial orders: empty, or holding only
\* the appended night; no night from before the clear is in it.
C15_AppendClearSerial ==
    (task.append = "done" /\ task.clear = "done") =>
        (store = <<>> \/ store = <<task.night>>)

Parsed == lastOp = "parseCsvToNights"

\* a line is blank when nothing but white space stands on it
IsBlank(l) == Len(l) = 1 /\ l[1].k = "txt" /\ l[1].t = ""

\* the non-blank lines of the text handed to parseCsvToNights
NonBlank == SelectSeq(csvText, LAMBDA l : ~IsBlank(l))

HeaderLine == NonBlank[1]

DataRows == IF NonBlank = <<>> THEN <<>> ELSE Tail(NonBlank)

\* the columns whose name, trimmed and lower-cased, is `name`
Columns(name) == { i \in 1..Len(HeaderLine) : toLowerCase(trim(HeaderLine[i])).t = name }

Required == {"date", "sleep_start", "sleep_end"}

HeaderLacksColumn == NonBlank # <<>> /\ \E name \in Required : Columns(name) = {}

HeaderValid == NonBlank # <<>> /\ \A name \in Required : Columns(name) # {}

\* the cell of a row under the first column called `name`
Cell(row, name) == LET i == CHOOSE c \in Columns(name) : \A d \in Columns(name) : c <= d
                   IN  row[i]

IsEmptyValue(c) == c.k = "txt" /\ c.t = ""

\* fewer fields than the header, or a required value empty after trimming
Skipped(row) ==
    \/ Len(row) < Len(HeaderLine)
    \/ \E name \in Required : IsEmptyValue(Cell(row, name))

NightOfRow(row) ==
    [date |-> trim(Cell(row, "date")), sleep_start |-> trim(Cell(row, "sleep_start")),
     sleep_end |-> trim(Cell(row, "sleep_end"))]

KeptRows == SelectSeq(DataRows, LAMBDA row : ~Skipped(row))

\* C16 as stated: whenever the header lacks one of date, sleep_start and
\* sleep_end, parseCsvToNights fails with MalformedHeader and returns no night.
C16_Original ==
    (Parsed /\ HeaderLacksColumn) =>
        (result.err = "MalformedHeader" /\ result.nights = <<>>)

\* C16: for a CSV text of at least two non-blank lines whose header lacks one
\* of date, sleep_start and sleep_end (any case, any order), parseCsvToNights
\* fails with MalformedHeader and returns no night.
C16_MalformedHeader ==
    (Parsed /\ Len(NonBlank) >= 2 /\ HeaderLacksColumn) =>
        (result.err = "MalformedHeader" /\ result.nights = <<>>)

\* a header without sleep_end above two rows of values
C16_Witness ==
    /\ Parsed
    /\ Len(NonBlank) = 3
    /\ Columns("sleep_end") = {} /\ Columns("date") # {} /\ Columns("sleep_start") # {}
    /\ \A i \in 1..2 : ~IsEmptyValue(DataRows[i][1])
    /\ result.err = "MalformedHeader"

\* C17: parseCsvToNights fails with NoDataRows exactly when the text has at
\* most one non-blank line; it fails with NoValidRows when the header is valid
\* and there is a data row but every data row is skipped; it never returns an
\* empty sequence.
C17_NoDataNoValidRows ==
    Parsed =>
        /\ (result.err = "NoDataRows") <=> (Len(NonBlank) <= 1)
        /\ (Len(NonBlank) >= 2 /\ HeaderValid /\ KeptRows = <<>>)
               => result.err = "NoValidRows"
        /\ result.err = "" => Len(result.nights) >= 1
        /\ result.err # "" => result.nights = <<>>

\* a valid header above two rows that are both skipped
C17_Witness ==
    /\ Parsed
    /\ HeaderValid
    /\ Len(DataRows) = 2
    /\ KeptRows = <<>>
    /\ result.err = "NoValidRows"

\* C18: under a valid header a data row is skipped, without an error, exactly
\* when it has fewer fields than the header or one of its three required
\* values is empty after trimming; every other row yields one night, and the
\* nights come in the order of their rows.
C18_RowsSkippedOrKept ==
    (Parsed /\ Len(NonBlank) >= 2 /\ HeaderValid) =>
        IF KeptRows = <<>>
        THEN result.err = "NoValidRows"
        ELSE /\ result.err = ""
             /\ result.nights = [i \in 1..Len(KeptRows) |-> NightOfRow(KeptRows[i])]

\* a row with a value missing is skipped, a row with a field too many is kept
C18_Witness ==
    /\ Parsed
    /\ HeaderValid
    /\ Len(DataRows) = 2
    /\ Len(DataRows[1]) = Len(HeaderLine) /\ Skipped(DataRows[1])
    /\ Len(DataRows[2]) > Len(HeaderLine)
    /\ result.err = ""
    /\ result.nights = <<NightOfRow(DataRows[2])>>

\* the headers of the documented format: the three columns in some order
ExportHeaders == { h \in Headers : Len(h) = 3 }

\* the text written for the nights ns under header h
Export(h, ns) == <<h>> \o [i \in 1..Len(ns) |-> RowFor(h, ns[i])]

NightLists(lo) == UNION { [1..k -> CsvNights] : k \in lo..MaxCsvRows }

\* C19 as stated: any sequence of N nights, the empty one included, written
\* under a header of the three columns in any order parses to the same nights.
C19_Original ==
    Parsed =>
        \A h \in ExportHeaders : \A ns \in NightLists(0) :
            csvText = Export(h, ns) => (result.err = "" /\ result.nights = ns)

\* C19: any sequence of N >= 1 nights written under a header of the three
\* columns in any order parses to N nights of the same date, sleep_start and
\* sleep_end in the same order.
C19_RoundTrip ==
    Parsed =>
        \A h \in ExportHeaders : \A ns \in NightLists(1) :
            csvText = Export(h, ns) => (result.err = "" /\ result.nights = ns)

\* two different nights under a header that starts with sleep_end
C19_Witness ==
    /\ Parsed
    /\ \E h \in ExportHeaders : \E ns \in NightLists(2) :
           /\ toLowerCase(trim(h[1])).t = "sleep_end"
           /\ ns[1] # ns[2]
           /\ csvText = Export(h, ns)
           /\ result.nights = ns

\* both timestamps of the night parse
ParseableNight(n) == Parseable(n.sleep_start) /\ Parseable(n.sleep_end)

\* the file imported last has a row, not skipped, whose sleep_start or sleep_end
\* is no timestamp
UnparseableRow ==
    /\ Len(NonBlank) >= 2
    /\ HeaderValid
    /\ \E i \in 1..Len(KeptRows) : ~ParseableNight(NightOfRow(KeptRows[i]))

\* C20: when a row of the imported file carries a sleep_start or sleep_end
\* that is no timestamp the import fails as a whole; no night with such a
\* timestamp is in the store, and none is among the rendered nights, from
\* which the stats and the risk label are computed on every render.
C20_UnparseableImportFails ==
    /\ (lastOp = "importCsv" /\ UnparseableRow) => result.err # ""
    /\ \A i \in 1..Len(store) : ParseableNight(store[i])
    /\ \A i \in 1..Len(nights) : ParseableNight(nights[i])

\* minutes past midnight, UTC, of an ISO timestamp
ClockMin(iso) == iso.a % 1440

\* C21: seed7FakeNights completes and leaves exactly 7 nights in MEM, one for
\* each of today and the six days before, oldest first, each with a valid
\* sleep_start and sleep_end: the four oldest start at 01:00, the last three
\* 20, 40 and 60 minutes later.
C21_SeedSevenNights ==
    lastOp = "seed7FakeNights" =>
        /\ got.error = ""
        /\ Len(MEM) = 7
        /\ \A k \in 1..7 :
               /\ MEM[k].date = DateStr((NowDay - (7 - k)) * 86400000)
               /\ Parseable(MEM[k].sleep_start) /\ Parseable(MEM[k].sleep_end)
               /\ ClockMin(MEM[k].sleep_start) = 60 + (IF k <= 4 THEN 0 ELSE (k - 4) * 20)

\* an importCsv step: a failed import leaves store and nights as they were, a
\* successful one leaves the nights parsed from the file in both
ImportStep ==
    lastOp' = "importCsv" =>
        IF result'.err # ""
        THEN store' = store /\ nights' = nights
        ELSE /\ store' = parseCsvToNights(csvText').nights
             /\ nights' = store'

\* C22: an import that fails (the file cannot be read, MalformedHeader,
\* NoDataRows, NoValidRows) leaves the store and the App's nights exactly as
\* they were; an import that succeeds replaces the store with the parsed nights.
C22_ImportAtomic == [][ImportStep]_vars

\* a file with a malformed header was refused over a store of two nights
C22_Witness ==
    /\ lastOp = "importCsv"
    /\ result.err = "MalformedHeader"
    /\ Len(store) = 2
    /\ nights = store

\* C23: two log-night actions of which one started while the other was in
\* flight leave, once both have completed, a store that holds every night it
\* held before and both logged nights.
C23_NoLostAppend ==
    (task.overlap /\ \A h \in Handlers : task.pc[h] = "done") =>
        \/ store = task.before \o <<task.night["a"], task.night["b"]>>
        \/ store = task.before \o <<task.night["b"], task.night["a"]>>

\* C24: no native notification is scheduled while coverage < 3: neither
\* fireNudgeNow nor scheduleDemoNudge calls scheduleNotificationAsync when the
\* risk label is INSUFFICIENT_DATA, whatever the permission, the platform and
\* the drift flag.
C24_NoNativeNudgeWithoutData ==
    (lastOp \in {"fireNudgeNow", "scheduleDemoNudge"} /\ label = "INSUFFICIENT_DATA")
        => ~nudge.native

\* a log-night step: the night appended has the midsleep the handler aimed at
\* (the baseline, or four hours from now over an empty store; three hours more
\* for a late night) and lasts 480 minutes
LogStepMid ==
    lastOp' \in {"logOnTrackNight", "logLateNight"} =>
        LET before == statsOf(nights)
            base == IF before.baselineMid # <<>> THEN before.baselineMid[1]
                    ELSE toMinutes(NowMs) + 4 * 60
            off == IF lastOp' = "logLateNight" THEN 180 ELSE 0
            n == derive(store'[Len(store')])
        IN  /\ Len(store') = Len(nights) + 1
            /\ n.midsleep_min_epoch = base + off
            /\ n.duration_min = 480

\* C25: for every midsleep m and offset o, derive(nightFromMidsleep(m, o)) has
\* midsleep_min_epoch = m + o and duration_min = 480; so Add on-time night
\* appends a night whose midsleep is the current baselineMid and Add late night
\* one whose midsleep is baselineMid + 180.
C25_SyntheticRoundTrip ==
    /\ [](lastOp = "nightFromMidsleep" =>
             /\ derivedOut.midsleep_min_epoch = arg.m + arg.o
             /\ derivedOut.duration_min = 480)
    /\ [][LogStepMid]_vars

\* a midsleep before the epoch with offset 180 went through derive, and a late
\* night was then logged over two nights, 180 minutes after their baseline
C25_Witness ==
    /\ lastOp = "logLateNight"
    /\ arg.m < 0 /\ arg.o = 180
    /\ raw # <<>>
    /\ derivedOut.midsleep_min_epoch = arg.m + 180
    /\ Len(store) = 3
    /\ derive(store[3]).midsleep_min_epoch
           = statsOf(SubSeq(store, 1, 2)).baselineMid[1] + 180

\* a getDerivedNights step with limit arg'
GetStep ==
    lastOp' = "getDerivedNights" =>
        /\ MEM' = MEM
        /\ Len(got') = Min(arg', Len(MEM))
        /\ \A i, j \in 1..Len(got') : i < j => got'[i].date.a > got'[j].date.a
        /\ \A i \in 1..Len(got') : \E k \in 1..Len(MEM) : got'[i] = derive_storage(MEM[k])
        /\ \A k \in 1..Len(MEM) :
               \/ \E i \in 1..Len(got') : got'[i].date = MEM[k].date
               \/ \A i \in 1..Len(got') : got'[i].date.a > MEM[k].date.a

\* C26: getDerivedNights(limit) returns exactly min(limit, number of stored
\* nights) derived nights, the newest ones, in strictly descending date order,
\* and leaves MEM as it was, the order of its entries included.
C26_GetDerivedNightsFrame == [][GetStep]_vars

\* the two newest of three nights that are stored oldest first
C26_Witness ==
    /\ lastOp = "getDerivedNights"
    /\ arg = 2
    /\ Len(MEM) = 3
    /\ MEM[1].date.a < MEM[2].date.a /\ MEM[2].date.a < MEM[3].date.a
    /\ Len(got) = 2
    /\ got[1].date = MEM[3].date /\ got[2].date = MEM[2].date

\* nights on consecutive dates, in either order, that all start and end at the
\* same time of day
IsRegularRun(ns) ==
    /\ \A i \in 1..Len(ns) :
           /\ getTime(ns[i].sleep_start) - getTime(ns[i].date)
                  = getTime(ns[1].sleep_start) - getTime(ns[1].date)
           /\ getTime(ns[i].sleep_end) - getTime(ns[i].date)
                  = getTime(ns[1].sleep_end) - getTime(ns[1].date)
    /\ \/ \A i \in 1..(Len(ns) - 1) : ns[i + 1].date.a = ns[i].date.a + 1
       \/ \A i \in 1..(Len(ns) - 1) : ns[i + 1].date.a = ns[i].date.a - 1

\* C27: 3 to 7 nights on consecutive calendar dates that all have the same
\* clock-time sleep_start and sleep_end yield drift = false and the label LOW.
C27_RegularScheduleLow ==
    (lastOp = "refresh" /\ Len(nights) \in 3..7 /\ IsRegularRun(nights))
        => (~stats.drift /\ label = "LOW")

\* C28: with the derived nights sorted by descending midsleep_min_epoch before
\* summarize, recentLateness is never negative, whatever nights are stored; so
\* drift is raised only by a night at least 90 minutes later than the baseline.
C28_LatenessNonNegative ==
    /\ stats.recentLateness >= 0
    /\ stats.drift => stats.recentLateness >= DRIFT_THRESHOLD_MIN

\* two imported nights, the earlier one first in the store
C28_Witness ==
    /\ lastOp = "importCsv"
    /\ Len(nights) = 2
    /\ derive(nights[1]).midsleep_min_epoch < derive(nights[2]).midsleep_min_epoch
    /\ stats.recentLateness > 0

\* a logOnTrackNight step
OnTrackStep ==
    lastOp' = "logOnTrackNight" =>
        LET before == statsOf(nights)
            after == statsOf(nights')
        IN  /\ (before.coverage >= 1 /\ before.coverage < 7) =>
                   /\ after.coverage = before.coverage + 1
                   /\ after.baselineMid = before.baselineMid
                   /\ after.recentLateness = before.recentLateness
                   /\ after.regularityLoss = before.regularityLoss
                   /\ after.drift = before.drift
            /\ (before.coverage = 7 /\ ~before.drift) => ~after.drift

\* C29: logOnTrackNight on a store with 1 <= coverage < 7 raises coverage by
\* exactly 1 and leaves baselineMid, recentLateness, regularityLoss and drift
\* as they were; with coverage 7 it never turns drift from false to true.
C29_OnTrackKeepsStats == [][OnTrackStep]_vars

\* an on-time night logged over nights with different midsleeps
C29_Witness ==
    /\ lastOp = "logOnTrackNight"
    /\ stats.coverage = 4
    /\ stats.regularityLoss > 0
    /\ derive(nights[4]).midsleep_min_epoch = stats.baselineMid[1]
    /\ statsOf(SubSeq(nights, 1, 3)).regularityLoss = stats.regularityLoss

\* C30 as stated: after logLateNight on a store that had coverage >= 2 the
\* risk label is HIGH.
C30_Original ==
    [][(lastOp' = "logLateNight" /\ statsOf(nights).coverage >= 2)
          => riskLabel(statsOf(nights')) = "HIGH"]_vars

\* C30: after logLateNight on a store that had 2 <= coverage < 7 the risk
\* label is HIGH.
C30_LateNightHigh ==
    [][(lastOp' = "logLateNight" /\ statsOf(nights).coverage >= 2
                                /\ statsOf(nights).coverage < 7)
          => riskLabel(statsOf(nights')) = "HIGH"]_vars

\* a late night logged over two nights that did not drift
C30_Witness ==
    /\ lastOp = "logLateNight"
    /\ Len(nights) = 3
    /\ ~statsOf(SubSeq(nights, 1, 2)).drift
    /\ derive(nights[3]).midsleep_min_epoch
           = statsOf(SubSeq(nights, 1, 2)).baselineMid[1] + 180
    /\ label = "HIGH"

====
